---- MODULE Spec2Model ----
(***************************************************************************)
(* Concurrency limiter: the FIFO gate (package limiter, Limiter) and the   *)
(* priority gate (package priority, PriorityLimiter).                      *)
(*                                                                         *)
(* Every caller is one goroutine that calls Wait once and, after Wait has  *)
(* returned, Finish once.  A step of the model is one atomic piece of a    *)
(* goroutine: a critical section under the gate mutex up to the point      *)
(* where it unlocks or blocks, the choice of a select case, or the         *)
(* rendezvous of a send on an unbuffered channel with its receiver.        *)
(***************************************************************************)
EXTENDS Integers, Sequences, FiniteSets

\* ------------------------------------------------------------------ bounds
NumCallers == 3
MaxLimit == 2

\* ------------------------------------------------------- program constants
Low == 1
Medium == 2
MediumHigh == 3
High == 4

PriorityValue == {Low, Medium, MediumHigh, High}

\* ------------------------------------------------------------------- state
VARIABLES
    gate,           \* "fifo": a Limiter, "priority": a PriorityLimiter
    limit,          \* Limiter.limit / PriorityLimiter.limit
    timeout,        \* timeout != nil
    dynamicPeriod,  \* dynamicPeriod != nil (priority gate only)
    count,          \* Limiter.count / PriorityLimiter.count
    waitList,       \* the wait structure: sequence of the queued callers' entries
    mu,             \* the gate mutex: 0 when free, else the goroutine holding it
    pc,             \* where each caller's goroutine is
    ctxDone,        \* ctxDone[c]: the context passed to c's Wait is cancelled
    done,           \* done[c]: the channel of c's entry: values received, closes
    item,           \* item[c]: the queue.Item of c's entry (priority gate)
    seqCounter,     \* arrival sequence handed out by the priority queue's Push
    target,         \* target[c]: the entry c's Finish removed and is signalling
    outcome,        \* how c's Wait returned (history)
    enqOrder,       \* callers in the order their entries were enqueued (history)
    grantOrder,     \* callers in the order a Finish woke them (history)
    panicked        \* a goroutine panicked: the program is gone

vars == <<gate, limit, timeout, dynamicPeriod, count, waitList, mu, pc, ctxDone,
          done, item, seqCounter, target, outcome, enqOrder, grantOrder, panicked>>

\* the goroutines calling the gate
Callers == DOMAIN pc

config == <<gate, limit, timeout, dynamicPeriod>>

\* -------------------------------------------------------- sequence helpers
Elems(s) == {s[i] : i \in 1..Len(s)}

IndexOf(s, x) == CHOOSE i \in 1..Len(s) : s[i] = x

\* list.Remove / heap.Remove of one known element
RemoveAt(s, i) == SubSeq(s, 1, i - 1) \o SubSeq(s, i + 1, Len(s))

\* ------------------------------------------------------------ Go channels
\* close(ch): closing a closed channel panics
closeChan(d, c) == [d EXCEPT ![c].closed = @ + 1]

closePanics(c) == done[c].closed > 0

\* ch <- struct{}{} taken by the receiver; sending on a closed channel panics
sendChan(d, c) == [d EXCEPT ![c].sent = @ + 1]

sendPanics(c) == done[c].closed > 0

\* ------------------------------------------------------------------- Init
\* the gate that New / NewLimiter returns for a limit of the set limits, used
\* by n callers
InitOf(n, limits) ==
    /\ gate \in {"fifo", "priority"}
    /\ limit \in limits
    /\ timeout \in BOOLEAN
    /\ dynamicPeriod \in BOOLEAN
    /\ (gate = "fifo" => dynamicPeriod = FALSE)
    /\ count = 0
    /\ waitList = <<>>
    /\ mu = 0
    /\ pc = [c \in 1..n |-> "idle"]
    /\ ctxDone = [c \in 1..n |-> FALSE]
    /\ done = [c \in 1..n |-> [sent |-> 0, closed |-> 0]]
    /\ item = [c \in 1..n |-> [Priority |-> 0, sequence |-> 0]]
    /\ seqCounter = 0
    /\ target = [c \in 1..n |-> 0]
    /\ outcome = [c \in 1..n |-> "none"]
    /\ enqOrder = <<>>
    /\ grantOrder = <<>>
    /\ panicked = FALSE

\* a gate of a positive limit
InitN(n) == InitOf(n, 1..MaxLimit)

\* New(limit, options...) / NewLimiter(limit, options...), any options
Init == InitN(NumCallers)

\* Callers are interchangeable until they call Wait: they call it in the
\* order of their numbers.
MayCall(c) == pc[c] = "idle" /\ (IF c = 1 THEN TRUE ELSE pc[c - 1] # "idle")

\* ctx's cancel function is called while c waits (a context cancelled earlier
\* is seen by the select the same way)
Cancel(c) ==
    /\ ~panicked
    /\ pc[c] \in {"select", "tick"}
    /\ ~ctxDone[c]
    /\ ctxDone' = [ctxDone EXCEPT ![c] = TRUE]
    /\ UNCHANGED <<config, count, waitList, mu, pc, done, item, seqCounter,
                   target, outcome, enqOrder, grantOrder, panicked>>

\* ============================================================== FIFO gate
\* a Finish that takes the entry pushed last instead of the front one
FrontMutant(l) == l[Len(l)]

\* l.waitList.Front()
Front(l) == l[1]

\* Limiter.Wait up to its select: proceed() under the mutex
LimiterWait(c) ==
    /\ ~panicked /\ gate = "fifo"
    /\ MayCall(c)
    /\ mu = 0
    /\ IF count < limit
         THEN /\ count' = count + 1
              /\ pc' = [pc EXCEPT ![c] = "inside"]
              /\ outcome' = [outcome EXCEPT ![c] = "fast"]
              /\ UNCHANGED <<waitList, enqOrder>>
         ELSE /\ waitList' = Append(waitList, c)
              /\ enqOrder' = Append(enqOrder, c)
              /\ pc' = [pc EXCEPT ![c] = "select"]
              /\ UNCHANGED <<count, outcome>>
    /\ UNCHANGED <<config, mu, ctxDone, done, item, seqCounter, target,
                   grantOrder, panicked>>

\* select case <-ctx.Done(): with a timeout configured Wait just returns,
\* without one it goes on to removeWaiter
LimiterSelectCtx(c) ==
    /\ ~panicked /\ gate = "fifo"
    /\ pc[c] = "select"
    /\ ctxDone[c]
    /\ IF timeout
         THEN /\ pc' = [pc EXCEPT ![c] = "inside"]
              /\ outcome' = [outcome EXCEPT ![c] = "cancelled"]
         ELSE /\ pc' = [pc EXCEPT ![c] = "remove_ctx"]
              /\ UNCHANGED outcome
    /\ UNCHANGED <<config, count, waitList, mu, ctxDone, done, item, seqCounter,
                   target, enqOrder, grantOrder, panicked>>

\* select case <-time.After(timeout)
LimiterSelectTimer(c) ==
    /\ ~panicked /\ gate = "fifo"
    /\ pc[c] = "select"
    /\ timeout
    /\ pc' = [pc EXCEPT ![c] = "remove_timer"]
    /\ UNCHANGED <<config, count, waitList, mu, ctxDone, done, item, seqCounter,
                   target, outcome, enqOrder, grantOrder, panicked>>

\* Limiter.removeWaiter, and the return of Wait after it
LimiterRemoveWaiter(c) ==
    /\ ~panicked /\ gate = "fifo"
    /\ pc[c] \in {"remove_ctx", "remove_timer"}
    /\ mu = 0
    /\ IF c \in Elems(waitList)
         THEN /\ done' = closeChan(done, c)
              /\ panicked' = closePanics(c)
              /\ waitList' = RemoveAt(waitList, IndexOf(waitList, c))
              /\ count' = count + 1
         ELSE UNCHANGED <<done, panicked, waitList, count>>
    /\ pc' = [pc EXCEPT ![c] = "inside"]
    /\ outcome' = [outcome EXCEPT ![c] =
                     IF pc[c] = "remove_ctx" THEN "cancelled" ELSE "timedout"]
    /\ UNCHANGED <<config, mu, ctxDone, item, seqCounter, target, enqOrder,
                   grantOrder>>

\* Limiter.Finish up to its send on the channel of the entry it removed
LimiterFinish(c) ==
    /\ ~panicked /\ gate = "fifo"
    /\ pc[c] = "inside"
    /\ mu = 0
    /\ count' = count - 1
    /\ IF waitList = <<>>
         THEN /\ pc' = [pc EXCEPT ![c] = "finished"]
              /\ UNCHANGED <<waitList, target, mu>>
         ELSE /\ target' = [target EXCEPT ![c] = Front(waitList)]
              /\ waitList' = RemoveAt(waitList, IndexOf(waitList, Front(waitList)))
              /\ mu' = c
              /\ pc' = [pc EXCEPT ![c] = "send"]
    /\ UNCHANGED <<config, ctxDone, done, item, seqCounter, outcome, enqOrder,
                   grantOrder, panicked>>

\* w.done <- struct{}{} meets the waiter's case <-ch; then close(w.done) and
\* the deferred Unlock
LimiterFinishSend(c) ==
    /\ ~panicked /\ gate = "fifo"
    /\ pc[c] = "send"
    /\ IF sendPanics(target[c])
         THEN /\ panicked' = TRUE
              /\ UNCHANGED <<done, pc, outcome, grantOrder, mu, target>>
         ELSE /\ pc[target[c]] = "select"
              /\ done' = closeChan(sendChan(done, target[c]), target[c])
              /\ pc' = [pc EXCEPT ![c] = "finished", ![target[c]] = "inside"]
              /\ outcome' = [outcome EXCEPT ![target[c]] = "granted"]
              /\ grantOrder' = Append(grantOrder, target[c])
              /\ mu' = 0
              /\ target' = [target EXCEPT ![c] = 0]
              /\ UNCHANGED panicked
    /\ UNCHANGED <<config, count, waitList, ctxDone, item, seqCounter, enqOrder>>

\* ========================================================== priority gate
\* ---- queue.PriorityQueue (package queue): ordered by priority descending,
\* ---- then arrival sequence ascending
Less(q, a, b) ==
    \/ q[a].Priority > q[b].Priority
    \/ q[a].Priority = q[b].Priority /\ q[a].sequence < q[b].sequence

\* heap.Push: the entry joins the queue and gets the next arrival sequence
Push(q, c) == [q EXCEPT ![c].sequence = seqCounter + 1]

\* the root of the heap: the entry that is Less than every other one
Best(l, q) == CHOOSE c \in Elems(l) : \A d \in Elems(l) \ {c} : Less(q, c, d)

\* heap.Remove(&waitList, GetIndex(w)): nothing to remove when w is not queued
Remove(l, c) == IF c \in Elems(l) THEN RemoveAt(l, IndexOf(l, c)) ELSE l

\* PriorityQueue.Update(w, priority): takes effect only if w is still queued
Update(l, q, c, priority) ==
    IF c \in Elems(l) THEN [q EXCEPT ![c].Priority = priority] ELSE q

\* ---- PriorityLimiter
waitMode ==
    IF dynamicPeriod /\ timeout THEN "dynamicPriorityAndTimeout"
    ELSE IF timeout THEN "handleTimeout"
    ELSE IF dynamicPeriod THEN "handleDynamicPriority"
    ELSE "plain"

\* &queue.Item{Priority: int(priority), Done: ch}
newItem(priority) == [Priority |-> priority, sequence |-> 0]

\* a proceed that returns the queued entry without unlocking
PriorityLimiterWaitMutant(c, priority) ==
    /\ ~panicked /\ gate = "priority"
    /\ MayCall(c)
    /\ mu = 0
    /\ IF count < limit
         THEN /\ count' = count + 1
              /\ pc' = [pc EXCEPT ![c] = "inside"]
              /\ outcome' = [outcome EXCEPT ![c] = "fast"]
              /\ UNCHANGED <<waitList, enqOrder, item, seqCounter, mu>>
         ELSE /\ item' = Push([item EXCEPT ![c] = newItem(priority)], c)
              /\ seqCounter' = seqCounter + 1
              /\ waitList' = Append(waitList, c)
              /\ enqOrder' = Append(enqOrder, c)
              /\ pc' = [pc EXCEPT ![c] = "select"]
              /\ mu' = c
              /\ UNCHANGED <<count, outcome>>
    /\ UNCHANGED <<config, ctxDone, done, target, grantOrder, panicked>>

\* PriorityLimiter.Wait up to the wait it dispatches to: proceed(priority)
PriorityLimiterWait(c, priority) ==
    /\ ~panicked /\ gate = "priority"
    /\ MayCall(c)
    /\ mu = 0
    /\ IF count < limit
         THEN /\ count' = count + 1
              /\ pc' = [pc EXCEPT ![c] = "inside"]
              /\ outcome' = [outcome EXCEPT ![c] = "fast"]
              /\ UNCHANGED <<waitList, enqOrder, item, seqCounter>>
         ELSE /\ item' = Push([item EXCEPT ![c] = newItem(priority)], c)
              /\ seqCounter' = seqCounter + 1
              /\ waitList' = Append(waitList, c)
              /\ enqOrder' = Append(enqOrder, c)
              /\ pc' = [pc EXCEPT ![c] = "select"]
              /\ UNCHANGED <<count, outcome>>
    /\ UNCHANGED <<config, mu, ctxDone, done, target, grantOrder, panicked>>

\* leaving the select for removeWaiter(w)
toRemove(c, why) ==
    /\ pc' = [pc EXCEPT ![c] = why]
    /\ UNCHANGED <<config, count, waitList, mu, ctxDone, done, item, seqCounter,
                   target, outcome, enqOrder, grantOrder, panicked>>

\* leaving the select through case <-ticker.C
toTick(c) ==
    /\ pc' = [pc EXCEPT ![c] = "tick"]
    /\ UNCHANGED <<config, count, waitList, mu, ctxDone, done, item, seqCounter,
                   target, outcome, enqOrder, grantOrder, panicked>>

\* a ticker case without the test w.Priority < int(High)
tickerPromoteMutant(c) ==
    /\ mu = 0
    /\ item' = Update(waitList, item, c, item[c].Priority + 1)
    /\ pc' = [pc EXCEPT ![c] = "select"]
    /\ UNCHANGED <<config, count, waitList, mu, ctxDone, done, seqCounter,
                   target, outcome, enqOrder, grantOrder, panicked>>

\* the body of case <-ticker.C under the mutex, then back to the select
tickerPromote(c) ==
    /\ mu = 0
    /\ item' = IF item[c].Priority < High
                 THEN Update(waitList, item, c, item[c].Priority + 1)
                 ELSE item
    /\ pc' = [pc EXCEPT ![c] = "select"]
    /\ UNCHANGED <<config, count, waitList, mu, ctxDone, done, seqCounter,
                   target, outcome, enqOrder, grantOrder, panicked>>

\* the select of Wait itself (neither dynamicPeriod nor timeout)
PriorityLimiterWaitSelect(c) ==
    /\ ~panicked /\ gate = "priority" /\ waitMode = "plain"
    /\ pc[c] = "select"
    /\ ctxDone[c]
    /\ toRemove(c, "remove_ctx")

handleTimeout(c) ==
    /\ ~panicked /\ gate = "priority" /\ waitMode = "handleTimeout"
    /\ pc[c] = "select"
    /\ \/ toRemove(c, "remove_timer")
       \/ ctxDone[c] /\ toRemove(c, "remove_ctx")

handleDynamicPriority(c) ==
    /\ ~panicked /\ gate = "priority" /\ waitMode = "handleDynamicPriority"
    /\ \/ pc[c] = "select" /\ toTick(c)
       \/ pc[c] = "tick" /\ tickerPromote(c)
       \/ pc[c] = "select" /\ ctxDone[c] /\ toRemove(c, "remove_ctx")

dynamicPriorityAndTimeout(c) ==
    /\ ~panicked /\ gate = "priority" /\ waitMode = "dynamicPriorityAndTimeout"
    /\ \/ pc[c] = "select" /\ ctxDone[c] /\ toRemove(c, "remove_ctx")
       \/ pc[c] = "select" /\ toRemove(c, "remove_timer")
       \/ pc[c] = "select" /\ ctxDone[c] /\ toRemove(c, "remove_ctx_tick")
       \/ pc[c] = "select" /\ ~ctxDone[c] /\ toTick(c)
       \/ pc[c] = "tick" /\ tickerPromote(c)

\* PriorityLimiter.removeWaiter, and the return of Wait after it
PriorityLimiterRemoveWaiter(c) ==
    /\ ~panicked /\ gate = "priority"
    /\ pc[c] \in {"remove_ctx", "remove_ctx_tick", "remove_timer"}
    /\ mu = 0
    /\ waitList' = Remove(waitList, c)
    /\ count' = count + 1
    /\ done' = closeChan(done, c)
    /\ panicked' = closePanics(c)
    /\ pc' = [pc EXCEPT ![c] = "inside"]
    /\ outcome' = [outcome EXCEPT ![c] =
                     IF pc[c] = "remove_timer" THEN "timedout" ELSE "cancelled"]
    /\ UNCHANGED <<config, mu, ctxDone, item, seqCounter, target, enqOrder,
                   grantOrder>>

\* a Finish that calls the slice's own Pop (its last element) instead of heap.Pop
heapPopMutant(l, q) == l[Len(l)]

\* heap.Pop(&p.waitList): the entry of the queue that is Less than all others
heapPop(l, q) == Best(l, q)

\* PriorityLimiter.Finish up to its send on the channel of the entry it popped
PriorityLimiterFinish(c) ==
    /\ ~panicked /\ gate = "priority"
    /\ pc[c] = "inside"
    /\ mu = 0
    /\ count' = count - 1
    /\ IF Len(waitList) = 0
         THEN /\ pc' = [pc EXCEPT ![c] = "finished"]
              /\ UNCHANGED <<waitList, target, mu>>
         ELSE /\ target' = [target EXCEPT ![c] = heapPop(waitList, item)]
              /\ waitList' = Remove(waitList, heapPop(waitList, item))
              /\ mu' = c
              /\ pc' = [pc EXCEPT ![c] = "send"]
    /\ UNCHANGED <<config, ctxDone, done, item, seqCounter, outcome, enqOrder,
                   grantOrder, panicked>>

\* a Finish whose send does not wait for the waiter to receive (as on a
\* buffered channel): it closes and unlocks whatever the waiter is doing
PriorityLimiterFinishSendMutant(c) ==
    /\ ~panicked /\ gate = "priority"
    /\ pc[c] = "send"
    /\ IF sendPanics(target[c])
         THEN /\ panicked' = TRUE
              /\ UNCHANGED <<done, pc, outcome, grantOrder, mu, target>>
         ELSE /\ done' = closeChan(sendChan(done, target[c]), target[c])
              /\ pc' = [pc EXCEPT ![c] = "finished",
                                  ![target[c]] = IF pc[target[c]] = "select"
                                                   THEN "inside" ELSE @]
              /\ outcome' = [outcome EXCEPT ![target[c]] =
                               IF pc[target[c]] = "select" THEN "granted" ELSE @]
              /\ grantOrder' = Append(grantOrder, target[c])
              /\ mu' = 0
              /\ target' = [target EXCEPT ![c] = 0]
              /\ UNCHANGED panicked
    /\ UNCHANGED <<config, count, waitList, ctxDone, item, seqCounter, enqOrder>>

\* it.Done <- struct{}{} meets the waiter's case <-w.Done; then close(it.Done)
\* and the deferred Unlock
PriorityLimiterFinishSend(c) ==
    /\ ~panicked /\ gate = "priority"
    /\ pc[c] = "send"
    /\ IF sendPanics(target[c])
         THEN /\ panicked' = TRUE
              /\ UNCHANGED <<done, pc, outcome, grantOrder, mu, target>>
         ELSE /\ pc[target[c]] = "select"
              /\ done' = closeChan(sendChan(done, target[c]), target[c])
              /\ pc' = [pc EXCEPT ![c] = "finished", ![target[c]] = "inside"]
              /\ outcome' = [outcome EXCEPT ![target[c]] = "granted"]
              /\ grantOrder' = Append(grantOrder, target[c])
              /\ mu' = 0
              /\ target' = [target EXCEPT ![c] = 0]
              /\ UNCHANGED panicked
    /\ UNCHANGED <<config, count, waitList, ctxDone, item, seqCounter, enqOrder>>

\* ------------------------------------------------------------ specification
Next ==
    \/ \E c \in Callers : Cancel(c)
    \/ \E c \in Callers : LimiterWait(c)
    \/ \E c \in Callers : LimiterSelectCtx(c)
    \/ \E c \in Callers : LimiterSelectTimer(c)
    \/ \E c \in Callers : LimiterRemoveWaiter(c)
    \/ \E c \in Callers : LimiterFinish(c)
    \/ \E c \in Callers : LimiterFinishSend(c)
    \/ \E c \in Callers, p \in PriorityValue : PriorityLimiterWait(c, p)
    \/ \E c \in Callers : PriorityLimiterWaitSelect(c)
    \/ \E c \in Callers : handleTimeout(c)
    \/ \E c \in Callers : handleDynamicPriority(c)
    \/ \E c \in Callers : dynamicPriorityAndTimeout(c)
    \/ \E c \in Callers : PriorityLimiterRemoveWaiter(c)
    \/ \E c \in Callers : PriorityLimiterFinish(c)
    \/ \E c \in Callers : PriorityLimiterFinishSend(c)

Spec == Init /\ [][Next]_vars

\* ---- the gates constructed with any limit, zero and negative included, used
\* ---- by one caller fewer
InitAnyLimit == InitOf(NumCallers - 1, (0 - 1)..MaxLimit)

SpecAnyLimit == InitAnyLimit /\ [][Next]_vars

\* ---- the gates used without a timeout and without any cancellation, by one
\* ---- caller more
InitNoCancel == InitN(NumCallers + 1) /\ timeout = FALSE

NextNoCancel ==
    \/ \E c \in Callers : LimiterWait(c)
    \/ \E c \in Callers : LimiterFinish(c)
    \/ \E c \in Callers : LimiterFinishSend(c)
    \/ \E c \in Callers, p \in PriorityValue : PriorityLimiterWait(c, p)
    \/ \E c \in Callers : handleDynamicPriority(c)
    \/ \E c \in Callers : PriorityLimiterFinish(c)
    \/ \E c \in Callers : PriorityLimiterFinishSend(c)

SpecNoCancel == InitNoCancel /\ [][NextNoCancel]_vars

\* ---- fair scheduling: a goroutine that can take a step of Wait or Finish
\* ---- eventually takes one, a timer eventually fires, and every caller whose
\* ---- Wait has returned eventually calls Finish
Step(c) ==
    \/ LimiterSelectCtx(c)
    \/ LimiterSelectTimer(c)
    \/ LimiterRemoveWaiter(c)
    \/ LimiterFinish(c)
    \/ LimiterFinishSend(c)
    \/ PriorityLimiterWaitSelect(c)
    \/ handleTimeout(c)
    \/ handleDynamicPriority(c)
    \/ dynamicPriorityAndTimeout(c)
    \/ PriorityLimiterRemoveWaiter(c)
    \/ PriorityLimiterFinish(c)
    \/ PriorityLimiterFinishSend(c)

FairSpec == Spec /\ \A c \in 1..NumCallers : WF_vars(Step(c))

\* the same scheduler for the callers that never cancel and have no timeout
FairSpecNoCancel ==
    SpecNoCancel /\ \A c \in 1..(NumCallers + 1) : WF_vars(Step(c))

\* ================================================================= claims
\* callers whose Wait has returned and who have not yet called Finish
Inside == {c \in Callers : pc[c] = "inside"}

Returned(c) == pc[c] \in {"inside", "send", "finished"}

Queued(c) == c \in Elems(enqOrder)

NoCancelNoTimeout == ~timeout /\ \A c \in Callers : ~ctxDone[c]

Before(s, a, b) ==
    /\ a \in Elems(s)
    /\ b \in Elems(s) => IndexOf(s, a) < IndexOf(s, b)

\* C1: with no timeout configured and no cancellation fired, the number of
\* callers whose Wait has returned and who have not yet called Finish never
\* exceeds limit.
C1_CapacityBound == NoCancelNoTimeout => Cardinality(Inside) <= limit

\* C2: in every reachable state 0 <= count <= limit.
C2_CountInRange == 0 <= count /\ count <= limit

\* C3: under fair scheduling every caller that was queued by Wait eventually
\* returns from Wait with one terminal outcome (granted, timed out or
\* cancelled).
C3_QueuedCallerReturns ==
    \A c \in 1..NumCallers :
        (pc[c] = "select") ~>
            (Returned(c) /\ outcome[c] \in {"granted", "timedout", "cancelled"})

\* C4: a Finish that has removed an entry can always complete its send: the
\* entry's waiter is still listening on the entry's channel.
C4_FinishNeverBlocks ==
    \A f \in Callers : pc[f] = "send" => pc[target[f]] = "select"

\* C5: whenever the lock is free, an entry is in the wait structure if and
\* only if its caller was queued and has not yet been granted, cancelled or
\* timed out.
C5_WaitStructureMembership ==
    mu = 0 =>
        \A c \in Callers :
            c \in Elems(waitList) <=> (Queued(c) /\ outcome[c] = "none")

\* C6: the channel of a wait entry is fired (sent on and closed by Finish, or
\* closed by removeWaiter) at most once, and exactly once when the caller's
\* Wait has returned.
C6_SignalFiredExactlyOnce ==
    \A c \in Callers :
        /\ done[c].sent <= 1
        /\ done[c].closed <= 1
        /\ (Queued(c) /\ Returned(c)) => (done[c].sent = 1 \/ done[c].closed = 1)

\* C7: in the FIFO gate each Finish that hands off wakes the entry that has
\* been in the wait list longest, entries are woken in the order they were
\* enqueued, and with no timeout and no cancellation the callers woken so far
\* are exactly the first ones enqueued, in that order.
C7_FifoOrder ==
    gate = "fifo" =>
        /\ \A f \in Callers : pc[f] = "send" =>
               \A e \in Elems(waitList) : Before(enqOrder, target[f], e)
        /\ \A i, j \in 1..Len(grantOrder) :
               i < j => Before(enqOrder, grantOrder[i], grantOrder[j])
        /\ NoCancelNoTimeout =>
               grantOrder = SubSeq(enqOrder, 1, Len(grantOrder))

C7_Witness ==
    /\ gate = "fifo" /\ limit = 1 /\ NoCancelNoTimeout
    /\ Len(enqOrder) >= 2
    /\ grantOrder = enqOrder

\* the i-th grant overtook the j-th one: it came first although its caller
\* was enqueued later
Overtakes(i, j) == i < j /\ Before(enqOrder, grantOrder[j], grantOrder[i])

\* C8: in the priority gate each Finish that hands off wakes an entry whose
\* current priority is the greatest among all queued entries; without aging,
\* timeout and cancellation a caller is woken ahead of one enqueued before it
\* only if its priority is greater, so that Low, Medium, High queued in that
\* order are woken High, Medium, Low.
C8_PriorityOrder ==
    gate = "priority" =>
        /\ \A f \in Callers : pc[f] = "send" =>
               \A e \in Elems(waitList) :
                   item[target[f]].Priority >= item[e].Priority
        /\ ~dynamicPeriod =>
               \A i, j \in 1..Len(grantOrder) :
                   Overtakes(i, j) =>
                       item[grantOrder[i]].Priority > item[grantOrder[j]].Priority

C8_Witness ==
    /\ gate = "priority" /\ limit = 1 /\ ~dynamicPeriod
    /\ Len(enqOrder) = 3
    /\ item[enqOrder[1]].Priority = Low
    /\ item[enqOrder[2]].Priority = Medium
    /\ item[enqOrder[3]].Priority = High
    /\ grantOrder = <<enqOrder[3], enqOrder[2], enqOrder[1]>>

\* C9: in the priority gate a Finish that hands off never wakes an entry while
\* an entry of the same priority that was pushed earlier is still queued, and
\* (without aging) of two callers of the same priority that were both woken by
\* a Finish the one enqueued first was woken first.
C9_TieBreak ==
    gate = "priority" =>
        /\ \A f \in Callers : pc[f] = "send" =>
               \A e \in Elems(waitList) :
                   item[e].Priority = item[target[f]].Priority =>
                       Before(enqOrder, target[f], e)
        /\ ~dynamicPeriod =>
               \A i, j \in 1..Len(grantOrder) :
                   item[grantOrder[i]].Priority = item[grantOrder[j]].Priority =>
                       ~Overtakes(i, j)

C9_Witness ==
    /\ gate = "priority" /\ ~dynamicPeriod
    /\ Len(grantOrder) = 2
    /\ item[grantOrder[1]].Priority = item[grantOrder[2]].Priority
    /\ Before(enqOrder, grantOrder[1], grantOrder[2])

\* C10: the capacity one Finish frees goes to exactly one acquirer: to the
\* queued caller it hands the slot to, or else to the fast path (count drops
\* by one only when nothing is handed off).
C10_OneFinishOneAdmission ==
    [][\A c \in Callers :
          (pc[c] = "inside" /\ pc'[c] \in {"send", "finished"}) =>
              (count - count') + (IF pc'[c] = "send" THEN 1 ELSE 0) = 1]_vars


\* C11: in a gate configured with a timeout, a queued caller whose timer
\* fires (it leaves the select through the timer case and can no longer be
\* granted) has its Wait return as timed out, and the step that returns it
\* removes its entry: the wait structure gets shorter by exactly one.
C11_TimerRemovesOne ==
    [][\A c \in Callers :
         (pc[c] = "remove_timer" /\ pc'[c] # "remove_timer") =>
            /\ c \in Elems(waitList)
            /\ c \notin Elems(waitList')
            /\ Len(waitList') = Len(waitList) - 1]_vars

\* C11, whole: a caller whose timer has fired eventually returns from Wait
\* as timed out, and the returning step removes exactly its entry.
C11_TimeoutReleases ==
    /\ \A c \in 1..NumCallers :
         (pc[c] = "remove_timer") ~> (outcome[c] = "timedout")
    /\ C11_TimerRemovesOne


\* an entry waiting at High is never passed over: the entry a Finish pops is
\* at High and arrived before every entry still waiting at High
C12_AgedBeforeLater ==
    \A f \in Callers :
       (gate = "priority" /\ pc[f] = "send") =>
          \A c \in Elems(waitList) :
             item[c].Priority = High =>
                /\ item[target[f]].Priority = High
                /\ item[target[f]].sequence < item[c].sequence

\* a handled tick raises an entry below High by exactly one: three ticks
\* take an entry from Low to High
C12_TickRaises ==
    [][\A c \in Callers :
         (pc[c] = "tick" /\ pc'[c] = "select" /\ item[c].Priority < High) =>
               item'[c].Priority = item[c].Priority + 1]_vars

\* C12: in the priority gate with aging, without timeout or cancellation, a
\* caller queued at Low behind High arrivals is raised to High by three
\* ticks, is from then on popped before every High entry that arrived after
\* it, and (every goroutine scheduled fairly, every admitted caller calling
\* Finish) is eventually admitted.
C12_AgingConvergence ==
    /\ \A c \in 1..(NumCallers + 1) :
         (dynamicPeriod /\ c \in Elems(waitList) /\ item[c].Priority = Low)
            ~> (outcome[c] = "granted")
    /\ []C12_AgedBeforeLater
    /\ C12_TickRaises


\* C13: whenever the lock is free, count is the number of callers whose
\* Wait has returned and that have not yet called Finish.
C13_CounterMeaning == mu = 0 => count = Cardinality(Inside)


\* C14: constructing a gate with limit <= 0 fails: there is never a gate of
\* a non-positive limit on which a caller has called Wait.
C14_MisconfigurationFailsFast ==
    limit <= 0 => \A c \in Callers : pc[c] = "idle"


\* ---- removeWaiter called for an entry that a Finish has already popped and
\* ---- woken. No Wait gets there (a Finish that pops an entry whose caller
\* ---- has left the select never releases the lock), so the call is made
\* ---- here directly, as a test inside the package would make it.
StaleTrigger(c) ==
    /\ ~panicked
    /\ pc[c] = "inside" /\ outcome[c] = "granted"
    /\ pc' = [pc EXCEPT ![c] = "remove_ctx"]
    /\ UNCHANGED <<config, count, waitList, mu, ctxDone, done, item, seqCounter,
                   target, outcome, enqOrder, grantOrder, panicked>>

NextStaleTrigger ==
    \/ Next
    \/ \E c \in Callers : StaleTrigger(c)

SpecStaleTrigger == Init /\ [][NextStaleTrigger]_vars

RemoveStates == {"remove_ctx", "remove_ctx_tick", "remove_timer"}

\* a Finish pops c's entry in this step
PoppedByFinish(c) ==
    \E f \in Callers : pc[f] = "inside" /\ pc'[f] = "send" /\ target'[f] = c

\* c's removeWaiter runs in this step
RemoveWaiterRuns(c) == pc[c] \in RemoveStates /\ pc'[c] = "inside"

\* C16: every wait entry is removed from the wait structure by at most one
\* of grant, cancellation and timeout: it leaves the structure only through
\* a Finish that pops it or through its own removeWaiter, one entry per
\* step, and never comes back; and count is adjusted for the entry at most
\* once, by the removeWaiter that actually removed it: a removeWaiter for an
\* entry that a Finish has popped in the meantime changes neither count nor
\* the length of the wait structure.
C16_ExclusiveRemoval ==
    [][\A c \in Callers :
         /\ (c \in Elems(waitList) /\ c \notin Elems(waitList')) =>
               /\ PoppedByFinish(c) # RemoveWaiterRuns(c)
               /\ Len(waitList') = Len(waitList) - 1
         /\ (c \in Elems(enqOrder) /\ c \notin Elems(waitList)) =>
               c \notin Elems(waitList')
         /\ RemoveWaiterRuns(c) =>
               IF c \in Elems(waitList)
                 THEN /\ count' = count + 1
                      /\ Len(waitList') = Len(waitList) - 1
                      /\ c \notin Elems(waitList')
                 ELSE /\ count' = count
                      /\ waitList' = waitList
         /\ PoppedByFinish(c) =>
               /\ c \in Elems(waitList)
               /\ Len(waitList') = Len(waitList) - 1]_vars

\* cancellation has won c's select while a Finish has popped c's entry and
\* is about to grant it
C16_Witness ==
    \E c \in Callers, f \in Callers :
       /\ pc[c] \in {"remove_ctx", "remove_ctx_tick"}
       /\ pc[f] = "send" /\ target[f] = c
       /\ c \notin Elems(waitList)


\* C17: in the priority gate with aging, with or without timeout, a tick is
\* taken up for promotion only after a re-check that the caller's
\* cancellation has not fired, and the promotion is applied only to an entry
\* that is still queued.
C17_TickRechecks ==
    [][\A c \in Callers :
         /\ (pc[c] = "select" /\ pc'[c] = "tick") => ~ctxDone[c]
         /\ (pc[c] = "tick" /\ item'[c] # item[c]) =>
               c \in Elems(waitList)]_vars


\* the priority of a queued entry is one of Low .. High
C18_PriorityRange ==
    \A c \in Elems(waitList) :
       gate = "priority" => item[c].Priority \in PriorityValue

\* a handled tick raises the priority by exactly one below High and leaves
\* it unchanged at High; no step lowers the priority of an entry
C18_PriorityStep ==
    [][\A c \in Callers :
         /\ (pc[c] = "tick" /\ pc'[c] = "select") =>
               item'[c].Priority = IF item[c].Priority < High
                                     THEN item[c].Priority + 1
                                     ELSE item[c].Priority
         /\ item'[c].Priority >= item[c].Priority]_vars

\* C18: each handled aging tick raises an entry's priority by exactly one if
\* it is below High and leaves it unchanged if it is High; the priority of
\* an entry never decreases and never exceeds High (4), so in every
\* reachable state it lies between its initial priority and High.
C18_PromotionStepAndCap == []C18_PriorityRange /\ C18_PriorityStep

\* an entry that a Finish passed over for a later arrival b of greater
\* priority has since been raised to High, b's priority, and takes up
\* another tick
C18_Witness ==
    \E c \in Elems(waitList), b \in Elems(grantOrder) :
       /\ item[c].sequence < item[b].sequence
       /\ item[b].Priority = High
       /\ item[c].Priority = High
       /\ pc[c] = "tick"


\* where a caller is while it is suspended in Wait or between the steps of
\* its wait loop
WaitStates == {"select", "tick"} \cup RemoveStates

\* C19: a caller never holds the gate lock while it is suspended in Wait:
\* the lock it takes in proceed, in removeWaiter and in the promotion step
\* is released within that step.
C19_WaiterHoldsNoLock ==
    \A c \in Callers : pc[c] \in WaitStates => mu # c

\* a queued caller is suspended in its select, after proceed, while another
\* caller holds the lock
C19_Witness ==
    \E c \in Elems(waitList) :
       /\ pc[c] = "select"
       /\ mu # 0 /\ mu # c


\* C20: a caller that calls Wait while the wait structure is non-empty is
\* never admitted through the fast path ahead of the queued callers:
\* whenever the lock is free and the wait structure is non-empty,
\* count >= limit.
C20_NoBarging == (mu = 0 /\ Len(waitList) > 0) => count >= limit


====
